---- MODULE Spec2Model ----
(***************************************************************************)
(* Model of the similarity index of the Climate-RAG platform:              *)
(* backend/services/vectorstore.py, class VectorStore, together with the   *)
(* two snapshot files it keeps under config.VECTORSTORE_DIR.               *)
(*                                                                         *)
(* One VectorStore instance lives at a time.  Every method is executed as  *)
(* a sequence of steps named after the source line they model; between     *)
(* two steps the process may crash, the embedder may raise and a file      *)
(* operation may raise an I/O error.  A behaviour holds at most MaxFaults  *)
(* crashes and I/O errors; the embedder may raise any number of times.     *)
(*                                                                         *)
(* Five specifications share the variables.  Spec (and SpecNoCrash) is the  *)
(* index with its files, faults and restarts; SpecQuery is the POST /query  *)
(* handler (main.py, qa_service.py) searching an index filled before;       *)
(* SpecChunk is DocumentProcessor.chunk_text (ingestion.py), whose call     *)
(* frame and configuration take the places of frame and config;            *)
(* SpecServer is the server with its upload and fetch handlers and the     *)
(* ingestion script (main.py, data_sources.py, ingest_documents.py);       *)
(* SpecChars is chunk_document (data_processor.py), the chunker that       *)
(* counts characters.                                                      *)
(*                                                                         *)
(* Numbers.  A float 1.0 is represented by the integer 5, so that the      *)
(* unit vectors (1,0), (0.6,0.8) are <<5,0>>, <<3,4>>; a score (an inner   *)
(* product of two stored vectors) is therefore in units of 1/25.           *)
(***************************************************************************)
EXTENDS Integers, Sequences, FiniteSets, TLC

VARIABLES
    self,    \* the live VectorStore instance: [index, documents]
    disk,    \* the two snapshot files: [index_path, docs_path]
    config,  \* backend/config.py: [VECTOR_DIMENSION]
    frame,   \* the method call in progress, or the one that just ended
    pre,     \* history: self and disk as they were when the call was made
    faults   \* number of crashes and I/O errors so far

vars == <<self, disk, config, frame, pre, faults>>

\* ------------------------------------------------------------ bounds
MaxEntries == 3     \* no insertion is started that would exceed this size
MaxK == 3           \* largest k handed to search
MaxFaults == 1      \* crashes and I/O errors in one behaviour
MaxResults == 4     \* largest |max_results| of a /query request
MaxTokens == 8      \* longest text handed to the chunker, in tokens
MaxChunk == 4       \* largest chunk_size and chunk_overlap
MaxCalls == 3       \* requests and script runs in one behaviour of the server
MaxChars == 6       \* longest text handed to chunk_document, in characters
MaxWindow == 5      \* largest chunk_size handed to chunk_document
MaxIters == 8       \* loop iterations of chunk_document that are followed

\* The texts of queries.
Texts == {1, 2, 3}
\* The texts of chunks; a chunk is identified by its text.
ChunkTexts == {1, 3}
\* The batches handed to an insertion: empty, one chunk, two chunks.
BatchLens == {0, 1, 2}
\* Values of VECTOR_DIMENSION: 2 is the embedder's dimension, 3 a mismatch.
Dimensions == {2, 3}

Batches == UNION {[1..n -> ChunkTexts] : n \in BatchLens}

\* ------------------------------------------------------------ numerics
RECURSIVE SumProd(_, _, _)
SumProd(a, b, n) ==
    IF n = 0 THEN 0 ELSE a[n] * b[n] + SumProd(a, b, n - 1)

\* inner product of two vectors of equal length
InnerProduct(a, b) == SumProd(a, b, Len(a))

ISqrt(n) == CHOOSE r \in 0..n : r * r <= n /\ (r + 1) * (r + 1) > n

\* SentenceTransformer.encode of one text: a raw (not normalised) vector.
\* Text 3 stands for a text whose embedding is the zero vector.
model_encode(t) ==
    CASE t = 1 -> <<2, 0>>
      [] t = 2 -> <<6, 8>>
      [] OTHER -> <<0, 0>>

encode_texts(texts) == [i \in 1..Len(texts) |-> model_encode(texts[i])]

\* faiss.normalize_L2: every row divided by its L2 norm; a row of norm 0
\* is left as it is (no error is raised).
normalize_row(v) ==
    LET nr == ISqrt(InnerProduct(v, v))
    IN  IF nr = 0 THEN v ELSE [j \in 1..Len(v) |-> (v[j] * 5) \div nr]

normalize_L2(x) == [i \in 1..Len(x) |-> normalize_row(x[i])]

\* ------------------------------------------------------------ faiss index
\* self.index = None
NoIndex == [made |-> FALSE, d |-> 0, xb |-> <<>>]

\* faiss.IndexFlatIP(d): an empty flat inner-product index
IndexFlatIP(d) == [made |-> TRUE, d |-> d, xb |-> <<>>]

ntotal(ix) == Len(ix.xb)

\* index.add(x) asserts that x has the dimension of the index
DimOK(ix, x) == \A i \in 1..Len(x) : Len(x[i]) = ix.d

\* mutant: the new rows are put in front of the stored ones
index_add_front(ix, x) == [ix EXCEPT !.xb = x \o @]

index_add(ix, x) == [ix EXCEPT !.xb = @ \o x]

\* the slot faiss fills in when fewer than k vectors are stored:
\* label -1 with the lowest float as score
PadScore == -26
Pad == [score |-> PadScore, idx |-> -1]

\* faiss promises the k best scores, best first; it promises no order among
\* rows of equal score.  Its heap keeps, among rows tied at the cut, the
\* ones scanned first, and then lists equal scores either lower label first
\* or higher label first, depending on the build.
TieRules == {"low", "high"}

\* does row i rank before row j for query q: higher score first, equal
\* scores as the tie rule says
RanksBefore(xb, q, i, j, tie) ==
    LET si == InnerProduct(xb[i], q)
        sj == InnerProduct(xb[j], q)
    IN  si > sj \/ (si = sj /\ IF tie = "low" THEN i < j ELSE i > j)

\* the rows the heap of size k holds after the scan
Kept(xb, q, k) ==
    {i \in 1..Len(xb) :
        Cardinality({j \in 1..Len(xb) : RanksBefore(xb, q, j, i, "low")}) < k}

RECURSIVE TopK(_, _, _, _, _)
TopK(xb, q, S, k, tie) ==
    IF k <= 0 THEN <<>>
    ELSE IF S = {} THEN <<Pad>> \o TopK(xb, q, S, k - 1, tie)
    ELSE LET b == CHOOSE i \in S : \A j \in S \ {i} : RanksBefore(xb, q, i, j, tie)
         IN  <<[score |-> InnerProduct(xb[b], q), idx |-> b - 1]>>
                 \o TopK(xb, q, S \ {b}, k - 1, tie)

\* index.search(q, k): exactly k (score, label) pairs, best first, labels
\* zero-based, padded with (lowest float, -1)
index_search(ix, q, k, tie) == TopK(ix.xb, q, Kept(ix.xb, q, k), k, tie)

\* index.search(x, k) asserts the dimension of x and k > 0
SearchArgsOK(ix, x, k) == DimOK(ix, x) /\ k > 0

\* Python list indexing with a zero-based, possibly negative, index
PyItem(list, i) == IF i >= 0 THEN list[i + 1] ELSE list[Len(list) + i + 1]

\* the loop of search: keep the pairs whose label is below len(documents)
RECURSIVE search_results(_, _)
search_results(documents, found) ==
    IF found = <<>> THEN <<>>
    ELSE LET h == Head(found)
             rest == search_results(documents, Tail(found))
         IN  IF h.idx < Len(documents)
             THEN <<[doc |-> PyItem(documents, h.idx), score |-> h.score]>> \o rest
             ELSE rest

\* ------------------------------------------------------------ files
Absent == [st |-> "absent", d |-> 0, xb |-> <<>>, data |-> <<>>]
\* a file opened for writing ("wb" truncates) and not yet completely written
Partial == [st |-> "partial", d |-> 0, xb |-> <<>>, data |-> <<>>]
\* faiss.write_index(index, path), completed
IndexFile(ix) == [st |-> "full", d |-> ix.d, xb |-> ix.xb, data |-> <<>>]
\* pickle.dump(documents, f), completed
DocsFile(documents) == [st |-> "full", d |-> 0, xb |-> <<>>, data |-> documents]

Exists(f) == f.st # "absent"
Readable(f) == f.st = "full"

\* faiss.read_index(path)
read_index(f) == [made |-> TRUE, d |-> f.d, xb |-> f.xb]

\* mutant: each file is loaded on its own, whatever the state of the other
load_index_each(s, dk) ==
    [index |-> IF Readable(dk.index_path) THEN read_index(dk.index_path) ELSE s.index,
     documents |-> IF Readable(dk.docs_path) THEN dk.docs_path.data ELSE s.documents]

\* VectorStore.load_index applied to instance s with the files dk
load_index(s, dk) ==
    IF Exists(dk.index_path) /\ Exists(dk.docs_path)
    THEN IF Readable(dk.index_path) /\ Readable(dk.docs_path)
         THEN [index |-> read_index(dk.index_path), documents |-> dk.docs_path.data]
         ELSE [index |-> NoIndex, documents |-> <<>>]
    ELSE s

\* VectorStore.__init__ up to the call of load_index
Fresh == [index |-> NoIndex, documents |-> <<>>]

\* VectorStore.get_stats
get_stats(s) ==
    [total_documents |-> Len(s.documents),
     index_size |-> IF s.index.made THEN ntotal(s.index) ELSE 0]

\* ------------------------------------------------------------ calls
RetNone == [kind |-> "None", val |-> <<>>]
RetList(r) == [kind |-> "list", val |-> r]

\* no HTTP request is being answered
NoResponse == [status |-> 0]

AtRest == frame.pc \in {"returned", "raised"}

Snapshot == [self |-> self, disk |-> disk]

NewFrame(op, pc0, docs, q, k) ==
    [op |-> op, pc |-> pc0, documents |-> docs, embeddings |-> <<>>,
     query |-> q, k |-> k, ret |-> RetNone, exc |-> "none", at |-> "none",
     nencode |-> 0, found |-> <<>>, request |-> "none", response |-> NoResponse]

\* no call in progress and none to report
IdleFrame == NewFrame("none", "idle", <<>>, 0, 0)
NoPre == [self |-> Fresh, disk |-> [index_path |-> Absent, docs_path |-> Absent]]

Call(op, pc0, docs, q, k) ==
    /\ frame.pc = "idle"
    /\ frame' = NewFrame(op, pc0, docs, q, k)
    /\ pre' = Snapshot
    /\ UNCHANGED <<self, disk, config, faults>>

\* the caller has taken the result (or the exception) of the call
Done ==
    /\ AtRest
    /\ frame' = IdleFrame
    /\ pre' = NoPre
    /\ UNCHANGED <<self, disk, config, faults>>

Goto(l) == frame' = [frame EXCEPT !.pc = l]
Return(v) == frame' = [frame EXCEPT !.pc = "returned", !.ret = v]
Raise(e) == frame' = [frame EXCEPT !.pc = "raised", !.exc = e]

Init ==
    /\ config \in [VECTOR_DIMENSION : Dimensions]
    /\ disk = [index_path |-> Absent, docs_path |-> Absent]
    /\ self = Fresh
    /\ frame = NewFrame("__init__", "returned", <<>>, 0, 0)
    /\ pre = NoPre
    /\ faults = 0

\* ------------------------------------------------------------ add_documents
\* an insertion is started only while the result fits the bound
Room(docs) ==
    /\ Len(self.documents) + Len(docs) <= MaxEntries
    /\ ntotal(self.index) + Len(docs) <= MaxEntries

add_documents ==
    \E docs \in Batches :
        /\ Room(docs)
        /\ Call("add_documents", "add_67", docs, 0, 0)

\* line 67: if not documents: return
Add_67 ==
    /\ frame.pc = "add_67"
    /\ IF frame.documents = <<>> THEN Return(RetNone) ELSE Goto("add_71")
    /\ UNCHANGED <<self, disk, config, pre, faults>>

\* line 71: embeddings = self.encode_texts(texts)
Add_71 ==
    /\ frame.pc = "add_71"
    /\ frame' = [frame EXCEPT !.pc = "add_73",
                              !.embeddings = encode_texts(frame.documents),
                              !.nencode = @ + 1]
    /\ UNCHANGED <<self, disk, config, pre, faults>>

\* line 71, the embedder raises
Add_71_Fail ==
    /\ frame.pc = "add_71"
    /\ Raise("EmbeddingFailure")
    /\ UNCHANGED <<self, disk, config, pre, faults>>

\* line 73: if self.index is None: self.create_index(documents)
Add_73 ==
    /\ frame.pc = "add_73"
    /\ IF self.index.made THEN Goto("add_77") ELSE Goto("create_37")
    /\ UNCHANGED <<self, disk, config, pre, faults>>

\* lines 77-78: faiss.normalize_L2(embeddings); self.index.add(embeddings)
Add_77 ==
    /\ frame.pc = "add_77"
    /\ LET x == normalize_L2(frame.embeddings)
       IN  IF DimOK(self.index, x)
           THEN /\ self' = [self EXCEPT !.index = index_add(@, x)]
                /\ frame' = [frame EXCEPT !.pc = "add_79", !.embeddings = x]
           ELSE /\ self' = self
                /\ frame' = [frame EXCEPT !.pc = "raised", !.exc = "AssertionError",
                                          !.embeddings = x]
    /\ UNCHANGED <<disk, config, pre, faults>>

\* mutant: the list is replaced by the batch
extend_replace(list, more) == more

\* list.extend
extend(list, more) == list \o more

\* line 79: self.documents.extend(documents)
Add_79 ==
    /\ frame.pc = "add_79"
    /\ self' = [self EXCEPT !.documents = extend(@, frame.documents)]
    /\ Goto("save_107")
    /\ UNCHANGED <<disk, config, pre, faults>>

\* ------------------------------------------------------------ create_index
create_index ==
    \E docs \in Batches :
        /\ Len(docs) <= MaxEntries
        /\ Call("create_index", "create_37", docs, 0, 0)

\* line 37: if not documents: return
Create_37 ==
    /\ frame.pc = "create_37"
    /\ IF frame.documents = <<>> THEN Return(RetNone) ELSE Goto("create_46")
    /\ UNCHANGED <<self, disk, config, pre, faults>>

\* line 46: embeddings = self.encode_texts(texts)
Create_46 ==
    /\ frame.pc = "create_46"
    /\ frame' = [frame EXCEPT !.pc = "create_49",
                              !.embeddings = encode_texts(frame.documents),
                              !.nencode = @ + 1]
    /\ UNCHANGED <<self, disk, config, pre, faults>>

\* mutant: the empty index of line 49 is made before the embedder is called
Create_46_Fail_IndexFirst ==
    /\ frame.pc = "create_46"
    /\ self' = [self EXCEPT !.index = IndexFlatIP(config.VECTOR_DIMENSION)]
    /\ Raise("EmbeddingFailure")
    /\ UNCHANGED <<disk, config, pre, faults>>

\* line 46, the embedder raises
Create_46_Fail ==
    /\ frame.pc = "create_46"
    /\ Raise("EmbeddingFailure")
    /\ UNCHANGED <<self, disk, config, pre, faults>>

\* line 49: self.index = faiss.IndexFlatIP(self.dimension)
Create_49 ==
    /\ frame.pc = "create_49"
    /\ self' = [self EXCEPT !.index = IndexFlatIP(config.VECTOR_DIMENSION)]
    /\ Goto("create_52")
    /\ UNCHANGED <<disk, config, pre, faults>>

\* lines 52-55: faiss.normalize_L2(embeddings); self.index.add(embeddings)
Create_52 ==
    /\ frame.pc = "create_52"
    /\ LET x == normalize_L2(frame.embeddings)
       IN  IF DimOK(self.index, x)
           THEN /\ self' = [self EXCEPT !.index = index_add(@, x)]
                /\ frame' = [frame EXCEPT !.pc = "create_58", !.embeddings = x]
           ELSE /\ self' = self
                /\ frame' = [frame EXCEPT !.pc = "raised", !.exc = "AssertionError",
                                          !.embeddings = x]
    /\ UNCHANGED <<disk, config, pre, faults>>

\* line 58: self.documents = documents
Create_58 ==
    /\ frame.pc = "create_58"
    /\ self' = [self EXCEPT !.documents = frame.documents]
    /\ Goto("save_107")
    /\ UNCHANGED <<disk, config, pre, faults>>

\* ------------------------------------------------------------ save_index
save_index == Call("save_index", "save_107", <<>>, 0, 0)

\* line 107: if self.index is not None
Save_107 ==
    /\ frame.pc = "save_107"
    /\ IF self.index.made THEN Goto("save_108") ELSE Goto("save_110")
    /\ UNCHANGED <<self, disk, config, pre, faults>>

\* line 108, faiss.write_index opens index_path for writing: the file is
\* truncated, whatever it held
Save_108_Open ==
    /\ frame.pc = "save_108"
    /\ disk' = [disk EXCEPT !.index_path = Partial]
    /\ Goto("save_108w")
    /\ UNCHANGED <<self, config, pre, faults>>

\* line 108, faiss.write_index cannot open index_path
Save_108_OpenFail ==
    /\ frame.pc = "save_108"
    /\ Raise("IOError")
    /\ faults < MaxFaults
    /\ faults' = faults + 1
    /\ UNCHANGED <<self, disk, config, pre>>

\* mutant: the index is written without its vectors
written_index_empty(s) == IndexFile(IndexFlatIP(s.index.d))

\* what line 108 leaves in index_path once written and closed
written_index(s) == IndexFile(s.index)

\* line 108, faiss.write_index writes the index and closes the file
Save_108_Write ==
    /\ frame.pc = "save_108w"
    /\ disk' = [disk EXCEPT !.index_path = written_index(self)]
    /\ Goto("save_110")
    /\ UNCHANGED <<self, config, pre, faults>>

\* line 108, faiss.write_index fails while writing
Save_108_WriteFail ==
    /\ frame.pc = "save_108w"
    /\ Raise("IOError")
    /\ faults < MaxFaults
    /\ faults' = faults + 1
    /\ UNCHANGED <<self, disk, config, pre>>

\* line 110: open(self.docs_path, 'wb') truncates the file
Save_110_Open ==
    /\ frame.pc = "save_110"
    /\ disk' = [disk EXCEPT !.docs_path = Partial]
    /\ Goto("save_111")
    /\ UNCHANGED <<self, config, pre, faults>>

\* line 110: open(self.docs_path, 'wb') raises
Save_110_OpenFail ==
    /\ frame.pc = "save_110"
    /\ Raise("IOError")
    /\ faults < MaxFaults
    /\ faults' = faults + 1
    /\ UNCHANGED <<self, disk, config, pre>>

\* mutant: the chunk list is dumped as it was before the batch was appended
written_docs_stale(s) == DocsFile(pre.self.documents)

\* what line 111 leaves in docs_path once dumped and closed
written_docs(s) == DocsFile(s.documents)

\* line 111: pickle.dump(self.documents, f), and the file is closed
Save_111_Dump ==
    /\ frame.pc = "save_111"
    /\ disk' = [disk EXCEPT !.docs_path = written_docs(self)]
    /\ Return(RetNone)
    /\ UNCHANGED <<self, config, pre, faults>>

\* line 111: pickle.dump raises
Save_111_DumpFail ==
    /\ frame.pc = "save_111"
    /\ Raise("IOError")
    /\ faults < MaxFaults
    /\ faults' = faults + 1
    /\ UNCHANGED <<self, disk, config, pre>>

\* ------------------------------------------------------------ search
search ==
    \E q \in Texts, k \in 1..MaxK :
        Call("search", "search_86", <<>>, q, k)

\* line 86: if self.index is None or len(self.documents) == 0: return []
Search_86 ==
    /\ frame.pc = "search_86"
    /\ IF ~self.index.made \/ Len(self.documents) = 0
       THEN Return(RetList(<<>>))
       ELSE Goto("search_91")
    /\ UNCHANGED <<self, disk, config, pre, faults>>

\* lines 91-92: query_embedding = self.encode_texts([query]); normalize_L2
Search_91 ==
    /\ frame.pc = "search_91"
    /\ frame' = [frame EXCEPT !.pc = "search_95",
                              !.embeddings = normalize_L2(encode_texts(<<frame.query>>)),
                              !.nencode = @ + 1]
    /\ UNCHANGED <<self, disk, config, pre, faults>>

\* line 91, the embedder raises
Search_91_Fail ==
    /\ frame.pc = "search_91"
    /\ Raise("EmbeddingFailure")
    /\ UNCHANGED <<self, disk, config, pre, faults>>

\* lines 95-103: scores, indices = self.index.search(q, k); the result loop
Search_95 ==
    /\ frame.pc = "search_95"
    /\ IF SearchArgsOK(self.index, frame.embeddings, frame.k)
       THEN \E tie \in TieRules :
                LET found == index_search(self.index, frame.embeddings[1], frame.k, tie)
                IN  frame' = [frame EXCEPT !.pc = "returned",
                                          !.found = found,
                                          !.ret = RetList(search_results(self.documents, found))]
       ELSE Raise("AssertionError")
    /\ UNCHANGED <<self, disk, config, pre, faults>>

\* VectorStore.search as a function of the instance it is called on, when
\* the embedder answers and faiss orders equal scores by rule tie
search_value(s, query, k, tie) ==
    IF ~s.index.made \/ Len(s.documents) = 0
    THEN [exc |-> "none", val |-> <<>>]
    ELSE LET x == normalize_L2(encode_texts(<<query>>))
         IN  IF SearchArgsOK(s.index, x, k)
             THEN [exc |-> "none",
                   val |-> search_results(s.documents, index_search(s.index, x[1], k, tie))]
             ELSE [exc |-> "AssertionError", val |-> <<>>]

\* ------------------------------------------------------------ process
\* The process dies (kill, power loss) at any point: memory is lost, the
\* files stay as they are.  frame.at keeps where the crash hit.
Crash ==
    /\ frame.pc # "down"
    /\ frame' = [frame EXCEPT !.pc = "down", !.at = frame.pc]
    /\ self' = Fresh
    /\ faults < MaxFaults
    /\ faults' = faults + 1
    /\ UNCHANGED <<disk, config, pre>>

\* VectorStore(): a new instance replaces the old one, after a crash or,
\* at rest, when a process ends normally and the next one starts or
\* when update_knowledge_base builds its own VectorStore
VectorStore ==
    /\ frame.pc \in {"down", "idle"}
    /\ self' = load_index(Fresh, disk)
    /\ frame' = NewFrame("__init__", "returned", <<>>, 0, 0)
    /\ pre' = [self |-> Fresh, disk |-> disk]
    /\ UNCHANGED <<disk, config, faults>>

NextNoCrash ==
    \/ add_documents \/ Add_67 \/ Add_71 \/ Add_71_Fail \/ Add_73 \/ Add_77 \/ Add_79
    \/ create_index \/ Create_37 \/ Create_46 \/ Create_46_Fail
    \/ Create_49 \/ Create_52 \/ Create_58
    \/ save_index \/ Save_107 \/ Save_108_Open \/ Save_108_OpenFail
    \/ Save_108_Write \/ Save_108_WriteFail
    \/ Save_110_Open \/ Save_110_OpenFail \/ Save_111_Dump \/ Save_111_DumpFail
    \/ search \/ Search_86 \/ Search_91 \/ Search_91_Fail \/ Search_95
    \/ VectorStore \/ Done

Next == NextNoCrash \/ Crash

\* every behaviour of the program, crashes included
Spec == Init /\ [][Next]_vars

\* the behaviours without a process crash (exceptions still happen)
SpecNoCrash == Init /\ [][NextNoCrash]_vars

\* ------------------------------------------------------------ POST /query
\* The /query handler of the server on an index that was filled before:
\* main.query_documents calls QAService.answer_query, which calls
\* VectorStore.search.  No file is touched and nothing is inserted.

\* a question made of white space only
Blank == 0
Questions == Texts \cup {Blank}
\* request.max_results is any integer: models.py declares no range
ResultCounts == (0 - MaxResults)..MaxResults

EmbeddingDimension == Len(model_encode(1))

\* the instance and the files after the chunks docs were inserted and saved
Stored(docs) ==
    IF docs = <<>> THEN Fresh
    ELSE [index |-> index_add(IndexFlatIP(EmbeddingDimension),
                              normalize_L2(encode_texts(docs))),
          documents |-> docs]

StoredFiles(docs) ==
    IF docs = <<>> THEN [index_path |-> Absent, docs_path |-> Absent]
    ELSE [index_path |-> written_index(Stored(docs)),
          docs_path |-> written_docs(Stored(docs))]

InitQuery ==
    /\ config = [VECTOR_DIMENSION |-> EmbeddingDimension]
    /\ \E docs \in UNION {[1..n -> Texts] : n \in 0..MaxEntries} :
          /\ self = Stored(docs)
          /\ disk = StoredFiles(docs)
    /\ frame = IdleFrame
    /\ pre = NoPre
    /\ faults = 0

RECURSIVE SumScores(_, _)
SumScores(results, n) ==
    IF n = 0 THEN 0 ELSE results[n].score + SumScores(results, n - 1)

\* mutant: every score is summed
confidence_sum_all(results) == SumScores(results, Len(results))

\* sum(scores[:3])
confidence_sum(results) ==
    SumScores(results, IF Len(results) < 3 THEN Len(results) ELSE 3)

\* min(3, len(scores))
confidence_count(results) == IF Len(results) < 3 THEN Len(results) ELSE 3

\* a QueryResponse; confidence_score is the fraction num / den
QueryResponse(sources, num, den) ==
    [status |-> 200, sources |-> sources,
     confidence_score |-> [num |-> num, den |-> den]]

HTTPException(status_code) == [status |-> status_code]

\* QAService.answer_query once search has returned
answer_query(search_results_) ==
    IF search_results_ = <<>>
    THEN QueryResponse(<<>>, 0, 1)
    ELSE QueryResponse(search_results_, confidence_sum(search_results_),
                       confidence_count(search_results_))

\* main.py 109-117: the request arrives; a blank question raises
\* HTTPException(400) inside the try block, any other question is handed
\* to answer_query, which starts with vector_store.search(query, k)
query_documents ==
    /\ frame.pc = "idle"
    /\ \E question \in Questions, max_results \in ResultCounts :
          frame' = IF question = Blank
                   THEN [NewFrame("query_documents", "raised", <<>>, question, max_results)
                            EXCEPT !.exc = "HTTPException", !.request = "open"]
                   ELSE [NewFrame("search", "search_86", <<>>, question, max_results)
                            EXCEPT !.request = "open"]
    /\ pre' = Snapshot
    /\ UNCHANGED <<self, disk, config, faults>>

\* qa_service.py 90-121, main.py 119: search has returned, the response is built
Answer_90 ==
    /\ frame.request = "open"
    /\ frame.pc = "returned"
    /\ frame' = [frame EXCEPT !.request = "answered",
                              !.response = answer_query(frame.ret.val)]
    /\ UNCHANGED <<self, disk, config, pre, faults>>

\* main.py 121-123: except Exception: raise HTTPException(status_code=500)
Query_121 ==
    /\ frame.request = "open"
    /\ frame.pc = "raised"
    /\ frame' = [frame EXCEPT !.request = "answered",
                              !.response = HTTPException(500)]
    /\ UNCHANGED <<self, disk, config, pre, faults>>

\* the response has been sent
Query_Sent ==
    /\ frame.request = "answered"
    /\ frame' = IdleFrame
    /\ pre' = NoPre
    /\ UNCHANGED <<self, disk, config, faults>>

NextQuery ==
    \/ query_documents
    \/ Search_86 \/ Search_91 \/ Search_91_Fail \/ Search_95
    \/ Answer_90 \/ Query_121 \/ Query_Sent

SpecQuery == InitQuery /\ [][NextQuery]_vars

\* ------------------------------------------------------------ chunker
\* DocumentProcessor.chunk_text of backend/services/ingestion.py.  A text is
\* the sequence of its white-space separated tokens, token j of a text being
\* the number j; config holds chunk_size and chunk_overlap.

ChunkIdle ==
    [op |-> "none", pc |-> "idle", words |-> <<>>, i |-> 0, chunks |-> <<>>,
     ret |-> RetNone, exc |-> "none"]

InitChunk ==
    /\ config \in [CHUNK_SIZE : 1..MaxChunk, CHUNK_OVERLAP : 0..MaxChunk]
    /\ disk = [index_path |-> Absent, docs_path |-> Absent]
    /\ self = Fresh
    /\ frame = ChunkIdle
    /\ pre = NoPre
    /\ faults = 0

\* mutant: the windows are spaced chunk_size + chunk_overlap apart
chunk_step_apart(chunk_size, chunk_overlap) == chunk_size + chunk_overlap

\* the step of the range of line 105
chunk_step(chunk_size, chunk_overlap) == chunk_size - chunk_overlap

\* mutant: the last window stops one token before the end of the text
chunk_end_short(i, chunk_size, n) ==
    IF i + chunk_size < n THEN i + chunk_size ELSE n - 1

\* mutant: chunks are numbered from 1
chunk_id_one_based(chunks) == Len(chunks) + 1

\* chunk_metadata['chunk_id'] = len(chunks)
chunk_id(chunks) == Len(chunks)

\* min(i + self.chunk_size, len(words))
chunk_end(i, chunk_size, n) == IF i + chunk_size < n THEN i + chunk_size ELSE n

\* lines 103-104: chunks = []; words = text.split()
chunk_text ==
    /\ frame.pc = "idle"
    /\ \E n \in 0..MaxTokens :
          frame' = [ChunkIdle EXCEPT !.op = "chunk_text", !.pc = "chunk_105",
                                    !.words = [j \in 1..n |-> j]]
    /\ UNCHANGED <<self, disk, config, pre, faults>>

\* line 105: for i in range(0, len(words), chunk_size - chunk_overlap);
\* range raises ValueError for a step of 0 and is empty for a negative step;
\* line 115: return chunks
Chunk_105 ==
    /\ frame.pc = "chunk_105"
    /\ LET step == chunk_step(config.CHUNK_SIZE, config.CHUNK_OVERLAP)
       IN  IF step = 0 THEN Raise("ValueError")
           ELSE IF step > 0 /\ frame.i < Len(frame.words)
                THEN Goto("chunk_106")
                ELSE Return(RetList(frame.chunks))
    /\ UNCHANGED <<self, disk, config, pre, faults>>

\* lines 106-113: one chunk is cut and appended, i moves on by the step
Chunk_106 ==
    /\ frame.pc = "chunk_106"
    /\ LET end == chunk_end(frame.i, config.CHUNK_SIZE, Len(frame.words))
       IN  frame' = [frame EXCEPT
                !.pc = "chunk_105",
                !.chunks = Append(@, [text |-> SubSeq(frame.words, frame.i + 1, end),
                                      chunk_id |-> chunk_id(frame.chunks),
                                      start_word |-> frame.i,
                                      end_word |-> end]),
                !.i = @ + chunk_step(config.CHUNK_SIZE, config.CHUNK_OVERLAP)]
    /\ UNCHANGED <<self, disk, config, pre, faults>>

\* the caller has taken the chunks (or the exception)
Chunk_Done ==
    /\ frame.op = "chunk_text"
    /\ AtRest
    /\ frame' = ChunkIdle
    /\ UNCHANGED <<self, disk, config, pre, faults>>

NextChunk == chunk_text \/ Chunk_105 \/ Chunk_106 \/ Chunk_Done

SpecChunk == InitChunk /\ [][NextChunk]_vars

\* ------------------------------------------------------------ server
\* The running server with its raw-data directory: self is the serving
\* instance qa_service.vector_store, disk holds the two snapshot files and
\* the files of config.RAW_DATA_DIR.  /upload inserts through the serving
\* instance; /fetch-sources runs update_knowledge_base, which downloads the
\* reports of the sources and inserts through a VectorStore of its own
\* (frame.kb); scripts/ingest_documents.py does the same for the whole
\* directory.  Handlers run one at a time, as the event loop runs them.
\* A file holds one chunk, whose text is the number of the file.

\* the reports of the data sources, in the order fetch_documents lists them
SourceList == <<1, 2>>
SourceFiles == {SourceList[n] : n \in 1..Len(SourceList)}
\* the files a client uploads
UploadFiles == {3}
Files == SourceFiles \cup UploadFiles

\* the chunk of a file whose download stopped part-way
Truncated(f) == f + Cardinality(Files)

\* process_document(file): the chunks of a file in state st; what can be
\* extracted from a part of a file is its truncated text or nothing
ProcessDocument(f, st) ==
    IF st = "full" THEN {<<f>>}
    ELSE IF st = "partial" THEN {<<>>, <<Truncated(f)>>}
    ELSE {<<>>}

\* the instance after add_documents(chunks) ran to its end on instance s
added(s, chunks) ==
    IF chunks = <<>> THEN s
    ELSE IF ~s.index.made
         THEN [index |-> index_add(IndexFlatIP(config.VECTOR_DIMENSION),
                                   normalize_L2(encode_texts(chunks))),
               documents |-> chunks]
         ELSE [index |-> index_add(s.index, normalize_L2(encode_texts(chunks))),
               documents |-> extend(s.documents, chunks)]

\* the files after the save_index that ends add_documents(chunks) on s
saved(dk, s, chunks) ==
    IF chunks = <<>> THEN dk
    ELSE [dk EXCEPT !.index_path = written_index(added(s, chunks)),
                    !.docs_path = written_docs(added(s, chunks))]

ServerIdle ==
    [op |-> "none", pc |-> "idle", j |-> 0, metas |-> <<>>, results |-> <<>>,
     kb |-> Fresh, count0 |-> 0, rerun |-> FALSE, ret |-> RetNone, exc |-> "none"]

InitServer ==
    /\ config = [VECTOR_DIMENSION |-> EmbeddingDimension]
    /\ disk = [index_path |-> Absent, docs_path |-> Absent,
               raw |-> [f \in Files |-> "absent"]]
    /\ self = Fresh
    /\ frame = ServerIdle
    /\ pre = [inserted |-> {}, ingested |-> {}, scripted |-> {}, calls |-> 0]
    /\ faults = 0

\* the entries of the snapshot on disk
SnapshotEntries == disk.docs_path.data

\* main.py 125-163: a file with an allowed extension is written to the raw
\* directory, processed, and inserted through the serving instance
upload_document ==
    /\ frame.pc = "idle"
    /\ pre.calls < MaxCalls
    /\ \E f \in UploadFiles :
          /\ self' = added(self, <<f>>)
          /\ disk' = saved([disk EXCEPT !.raw[f] = "full"], self, <<f>>)
          /\ pre' = [pre EXCEPT !.inserted = @ \cup {f}, !.calls = @ + 1]
    /\ frame' = [ServerIdle EXCEPT !.op = "upload_document", !.pc = "returned"]
    /\ UNCHANGED <<config, faults>>

\* main.py 46-53: /fetch-sources calls update_knowledge_base, which starts
\* with fetch_all_documents
fetch_from_sources ==
    /\ frame.pc = "idle"
    /\ pre.calls < MaxCalls
    /\ frame' = [ServerIdle EXCEPT
            !.op = "fetch_from_sources", !.pc = "download_54", !.j = 1,
            !.count0 = Len(SnapshotEntries),
            !.rerun = \A f \in SourceFiles :
                          disk.raw[f] = "full" /\ f \in pre.ingested]
    /\ pre' = [pre EXCEPT !.calls = @ + 1]
    /\ UNCHANGED <<self, disk, config, faults>>

\* download_document has ended for report frame.j with result r
Downloaded(r) ==
    frame' = [frame EXCEPT
        !.results = Append(@, r),
        !.metas = IF r = "path" THEN Append(@, SourceList[frame.j]) ELSE @,
        !.j = IF frame.j < Len(SourceList) THEN @ + 1 ELSE 1,
        !.pc = IF frame.j < Len(SourceList) THEN "download_54" ELSE "update_375"]

\* data_sources.py 54-56: the file exists already: return file_path
Download_54 ==
    /\ frame.pc = "download_54"
    /\ disk.raw[SourceList[frame.j]] # "absent"
    /\ Downloaded("path")
    /\ UNCHANGED <<self, disk, config, pre, faults>>

\* lines 58-66: status 200, the body is streamed into the file to its end
Download_58 ==
    /\ frame.pc = "download_54"
    /\ disk.raw[SourceList[frame.j]] = "absent"
    /\ disk' = [disk EXCEPT !.raw[SourceList[frame.j]] = "full"]
    /\ Downloaded("path")
    /\ UNCHANGED <<self, config, pre, faults>>

\* lines 60-62, 71-73: the file is open for writing and the stream raises
Download_61_Fail ==
    /\ frame.pc = "download_54"
    /\ disk.raw[SourceList[frame.j]] = "absent"
    /\ faults < MaxFaults
    /\ faults' = faults + 1
    /\ disk' = [disk EXCEPT !.raw[SourceList[frame.j]] = "partial"]
    /\ Downloaded("None")
    /\ UNCHANGED <<self, config, pre>>

\* lines 67-69: a status other than 200: return None
Download_68 ==
    /\ frame.pc = "download_54"
    /\ disk.raw[SourceList[frame.j]] = "absent"
    /\ Downloaded("None")
    /\ UNCHANGED <<self, disk, config, pre, faults>>

\* lines 375-382: nothing fetched: return; else vector_store = VectorStore()
Update_375 ==
    /\ frame.pc = "update_375"
    /\ frame' = IF frame.metas = <<>>
                THEN [frame EXCEPT !.pc = "fetch_56"]
                ELSE [frame EXCEPT !.pc = "update_384", !.j = 1,
                                   !.kb = load_index(Fresh, disk)]
    /\ UNCHANGED <<self, disk, config, pre, faults>>

\* lines 384-402: one document is processed and its chunks are inserted
\* through the instance of update_knowledge_base
Update_384 ==
    /\ frame.pc = "update_384"
    /\ LET f == frame.metas[frame.j]
       IN  \E chunks \in ProcessDocument(f, disk.raw[f]) :
             /\ frame' = [frame EXCEPT
                    !.kb = added(@, chunks),
                    !.j = @ + 1,
                    !.pc = IF frame.j < Len(frame.metas) THEN "update_384"
                           ELSE "fetch_56"]
             /\ disk' = saved(disk, frame.kb, chunks)
             /\ pre' = [pre EXCEPT
                    !.inserted = @ \cup {chunks[n] : n \in 1..Len(chunks)},
                    !.ingested = IF chunks = <<f>> THEN @ \cup {f} ELSE @]
    /\ UNCHANGED <<self, config, faults>>

\* main.py 56-62: the stats of the serving instance are returned
Fetch_56 ==
    /\ frame.pc = "fetch_56"
    /\ frame' = [frame EXCEPT !.pc = "returned", !.ret = RetList(<<get_stats(self)>>)]
    /\ UNCHANGED <<self, disk, config, pre, faults>>

\* the files of the raw directory
RawFiles == {f \in Files : disk.raw[f] # "absent"}

\* scripts/ingest_documents.py: a process of its own builds a VectorStore,
\* processes every file of the raw directory and inserts all chunks at once
ingest_documents ==
    /\ frame.pc = "idle"
    /\ pre.calls < MaxCalls
    /\ \E c \in [Files -> UNION {ProcessDocument(f, st) :
                                   f \in Files, st \in {"absent", "partial", "full"}}] :
          /\ \A f \in Files : c[f] \in ProcessDocument(f, disk.raw[f])
          /\ LET chunks == c[1] \o c[2] \o c[3]
                 kb == load_index(Fresh, disk)
             IN  /\ disk' = saved(disk, kb, chunks)
                 /\ frame' = [ServerIdle EXCEPT
                        !.op = "ingest_documents", !.pc = "returned",
                        !.kb = added(kb, chunks),
                        !.count0 = Len(SnapshotEntries),
                        !.rerun = RawFiles # {} /\ pre.scripted = RawFiles]
                 /\ pre' = [pre EXCEPT
                        !.inserted = @ \cup {chunks[n] : n \in 1..Len(chunks)},
                        !.scripted = RawFiles,
                        !.calls = @ + 1]
    /\ UNCHANGED <<self, config, faults>>

\* the response has been sent, the script has ended
Server_Done ==
    /\ AtRest
    /\ frame' = ServerIdle
    /\ UNCHANGED <<self, disk, config, pre, faults>>

\* the server is restarted: qa_service = QAService() builds a VectorStore
Restart ==
    /\ frame.pc = "idle"
    /\ self' = load_index(Fresh, disk)
    /\ UNCHANGED <<disk, config, frame, pre, faults>>

NextServer ==
    \/ upload_document \/ fetch_from_sources
    \/ Download_54 \/ Download_58 \/ Download_61_Fail \/ Download_68
    \/ Update_375 \/ Update_384 \/ Fetch_56
    \/ ingest_documents \/ Server_Done \/ Restart

SpecServer == InitServer /\ [][NextServer]_vars

\* ------------------------------------------------------------ chunk_document
\* DataIngestionPipeline.chunk_document of backend/data_processor.py, the
\* chunker that counts characters.  A text is a sequence of characters.

Chars == {"a", ".", " "}
CharTexts == UNION {[1..n -> Chars] : n \in 0..MaxChars}

\* x or default: a falsy x (None, 0) gives the default
PyOr(x, default) == IF x = 0 THEN default ELSE x

\* a slice bound as Python reads it on a sequence of length n
PyBound(i, n) ==
    IF i < 0 THEN (IF i + n < 0 THEN 0 ELSE i + n)
    ELSE IF i > n THEN n ELSE i

\* text[start:end]
PySlice(text, start, end) ==
    SubSeq(text, PyBound(start, Len(text)) + 1, PyBound(end, Len(text)))

\* text.rfind('.', start, end)
PyRfind(text, start, end) ==
    LET hits == {p \in PyBound(start, Len(text))..(PyBound(end, Len(text)) - 1) :
                    text[p + 1] = "."}
    IN  IF hits = {} THEN -1 ELSE CHOOSE p \in hits : \A r \in hits : r <= p

\* str.strip(): leading and trailing white space removed
RECURSIVE PyStrip(_)
PyStrip(t) ==
    IF t = <<>> THEN t
    ELSE IF Head(t) = " " THEN PyStrip(Tail(t))
    ELSE IF t[Len(t)] = " " THEN PyStrip(SubSeq(t, 1, Len(t) - 1))
    ELSE t

CharsIdle ==
    [op |-> "none", pc |-> "idle", text |-> <<>>, chunk_size |-> 0, overlap |-> 0,
     start |-> 0, prev |-> 0, iters |-> 0, chunks |-> <<>>,
     ret |-> RetNone, exc |-> "none"]

\* Config: CHUNK_SIZE and CHUNK_OVERLAP, 1000 and 200 scaled down to 5 and 1
InitChars ==
    /\ config = [CHUNK_SIZE |-> MaxWindow, CHUNK_OVERLAP |-> MaxWindow \div 5]
    /\ disk = [index_path |-> Absent, docs_path |-> Absent]
    /\ self = Fresh
    /\ frame = CharsIdle
    /\ pre = NoPre
    /\ faults = 0

\* lines 150-158: the arguments (0 stands for None as for 0), the defaults
chunk_document ==
    /\ frame.pc = "idle"
    /\ \E text \in CharTexts, chunk_size \in 0..MaxWindow, overlap \in 0..MaxWindow :
          frame' = [CharsIdle EXCEPT
                !.op = "chunk_document", !.pc = "chars_160", !.text = text,
                !.chunk_size = PyOr(chunk_size, config.CHUNK_SIZE),
                !.overlap = PyOr(overlap, config.CHUNK_OVERLAP)]
    /\ UNCHANGED <<self, disk, config, pre, faults>>

\* the end of the window that starts at start: lines 161-166
window_end(text, start, chunk_size) ==
    LET end == IF start + chunk_size < Len(text) THEN start + chunk_size ELSE Len(text)
        last_period == PyRfind(text, start, end)
    IN  IF end < Len(text) /\ last_period # -1
                           /\ last_period > start + chunk_size \div 2
        THEN last_period + 1
        ELSE end

\* lines 160-179: one iteration of the while loop
Chars_160 ==
    /\ frame.pc = "chars_160"
    /\ frame.start < Len(frame.text)
    /\ frame.iters < MaxIters
    /\ LET end == window_end(frame.text, frame.start, frame.chunk_size)
           chunk_text_ == PyStrip(PySlice(frame.text, frame.start, end))
       IN  frame' = [frame EXCEPT
                !.chunks = IF chunk_text_ # <<>>
                           THEN Append(@, [index |-> Len(@), content |-> chunk_text_,
                                           start_char |-> frame.start, end_char |-> end])
                           ELSE @,
                !.prev = frame.start,
                !.iters = @ + 1,
                !.start = IF end < Len(frame.text) THEN end - frame.overlap
                          ELSE Len(frame.text)]
    /\ UNCHANGED <<self, disk, config, pre, faults>>

\* lines 160, 181: the loop ends, return chunks
Chars_181 ==
    /\ frame.pc = "chars_160"
    /\ frame.start >= Len(frame.text)
    /\ Return(RetList(frame.chunks))
    /\ UNCHANGED <<self, disk, config, pre, faults>>

\* the caller has taken the chunks
Chars_Done ==
    /\ frame.op = "chunk_document"
    /\ frame.pc = "returned"
    /\ frame' = CharsIdle
    /\ UNCHANGED <<self, disk, config, pre, faults>>

NextChars == chunk_document \/ Chars_160 \/ Chars_181 \/ Chars_Done

SpecChars == InitChars /\ [][NextChars]_vars

\* ------------------------------------------------------------ properties
Min(a, b) == IF a <= b THEN a ELSE b

IsPrefix(a, b) == Len(a) <= Len(b) /\ \A i \in 1..Len(a) : a[i] = b[i]

EndsWith(a, b) ==
    /\ Len(b) <= Len(a)
    /\ \A i \in 1..Len(b) : a[Len(a) - Len(b) + i] = b[i]

\* the rows an embedder-and-normalise pass gives for a list of chunks
RowsOf(documents) == normalize_L2(encode_texts(documents))

\* chunk list and vector collection agree in length and position by position
Aligned(s) ==
    /\ Len(s.documents) = ntotal(s.index)
    /\ \A i \in 1..Len(s.documents) : s.index.xb[i] = RowsOf(s.documents)[i]

Inserting == frame.op \in {"add_documents", "create_index"}

SavePcs == {"save_107", "save_108", "save_108w", "save_110", "save_111"}

\* C1: between calls, in runs without a crash, the chunk list and the vector
\* collection have the same length, row i is the embedding of chunk i, and
\* get_stats reports total_documents = index_size.
C1_AlignedBetweenCalls ==
    frame.pc \in {"idle", "returned", "raised"} =>
        /\ Aligned(self)
        /\ get_stats(self).total_documents = get_stats(self).index_size

\* C2: a search with k > 0 returns at most min(k, entry_count) results.
C2_SearchAtMostMinK ==
    (frame.op = "search" /\ frame.pc = "returned" /\ frame.k > 0) =>
        Len(frame.ret.val) <= Min(frame.k, ntotal(self.index))

\* both files are there and complete
Complete(dk) == Readable(dk.index_path) /\ Readable(dk.docs_path)

\* C3: after a crash during save_index, the two files are the complete
\* snapshot that was on disk before the flush.
C3_CrashedFlushKeepsSnapshot ==
    (frame.pc = "down" /\ frame.at \in SavePcs /\ Complete(pre.disk)) =>
        disk = pre.disk

\* C4: when an insertion of a non-empty batch has returned, the files hold
\* exactly the in-memory index, and loading them into a fresh instance
\* gives an index that ends with the batch.
C4_ReturnedInsertionIsDurable ==
    (Inserting /\ frame.pc = "returned" /\ frame.documents # <<>>) =>
        /\ disk.index_path.st = "full"
        /\ disk.index_path.xb = self.index.xb
        /\ disk.index_path.d = self.index.d
        /\ disk.docs_path.st = "full"
        /\ disk.docs_path.data = self.documents
        /\ LET loaded == load_index(Fresh, disk)
           IN  /\ loaded.index.made
               /\ EndsWith(loaded.documents, frame.documents)
               /\ EndsWith(loaded.index.xb, RowsOf(frame.documents))

C4_Witness ==
    /\ frame.op = "add_documents"
    /\ frame.pc = "returned"
    /\ Len(frame.documents) = 2
    /\ Len(pre.self.documents) = 1

\* C5: an add_documents call that raises has inserted nothing: the entry
\* count is what it was before the call.
C5_FailedInsertInsertsNothing ==
    (frame.op = "add_documents" /\ frame.pc = "raised") =>
        /\ self.documents = pre.self.documents
        /\ ntotal(self.index) = ntotal(pre.self.index)

\* C6: when the embedder raises during an insertion, the call raises and
\* neither the vector collection, the chunk list nor the files change.
C6_EmbedderFailureChangesNothing ==
    (Inserting /\ frame.pc = "raised" /\ frame.exc = "EmbeddingFailure") =>
        /\ self = pre.self
        /\ disk = pre.disk

\* the embedder raised on its second call of a first insertion
C6_Witness ==
    /\ frame.op = "add_documents"
    /\ frame.pc = "raised"
    /\ frame.exc = "EmbeddingFailure"
    /\ frame.nencode = 1
    /\ ~pre.self.index.made

HasZeroNorm(documents) ==
    \E i \in 1..Len(documents) :
        LET v == model_encode(documents[i]) IN InnerProduct(v, v) = 0

\* the exceptions the embedder, faiss and the file system raise
OtherFailures == {"EmbeddingFailure", "AssertionError", "IOError"}

\* C7: an insertion of a batch with a zero-norm vector, when nothing else
\* fails, raises DegenerateVector and stores nothing of the batch.
C7_ZeroNormBatchRejected ==
    (Inserting /\ AtRest /\ HasZeroNorm(frame.documents)
        /\ frame.exc \notin OtherFailures) =>
        /\ frame.pc = "raised"
        /\ frame.exc = "DegenerateVector"
        /\ self = pre.self

\* a step of the live instance: not a crash, not a new instance
SameInstance == frame'.pc # "down" /\ frame'.op # "__init__"

KeepsEntries ==
    /\ IsPrefix(self.documents, self'.documents)
    /\ IsPrefix(self.index.xb, self'.index.xb)

\* C8 as claimed: no step of a public operation on an instance removes,
\* replaces or renumbers an entry, create_index included.
C8_AppendOnly == [][SameInstance => KeepsEntries]_vars

\* C8 as amended: the steps of add_documents, save_index and search keep
\* every entry at its position; a create_index call that returns has
\* replaced the entries by those of its batch.
C8_AppendOnlyButCreate ==
    /\ [][(SameInstance /\ frame'.op # "create_index") => KeepsEntries]_vars
    /\ []((frame.op = "create_index" /\ frame.pc = "returned"
              /\ frame.documents # <<>>) =>
            /\ self.documents = frame.documents
            /\ self.index.xb = RowsOf(frame.documents))

C8_Witness ==
    /\ frame.op = "add_documents"
    /\ frame.pc = "returned"
    /\ Len(pre.self.documents) = 2
    /\ Len(self.documents) = 3

\* C9 as claimed: add_documents of m entries into an index of n entries
\* stores them at positions n .. n+m-1 and returns n.
C9_ReturnsStartPosition ==
    (frame.op = "add_documents" /\ frame.pc = "returned"
        /\ frame.documents # <<>>) =>
        /\ self.documents = pre.self.documents \o frame.documents
        /\ frame.ret.kind = "int"
        /\ frame.ret.val = Len(pre.self.documents)

\* C9 as amended: add_documents that returns has appended the chunks of the
\* batch, in input order, to the chunk list and their normalised embeddings,
\* in the same order, to the vector collection; it returns None.
C9_AppendsInOrderReturnsNone ==
    (frame.op = "add_documents" /\ frame.pc = "returned") =>
        /\ self.documents = pre.self.documents \o frame.documents
        /\ self.index.xb = pre.self.index.xb \o RowsOf(frame.documents)
        /\ frame.ret.kind = "None"

C9_Witness ==
    /\ frame.op = "add_documents"
    /\ frame.pc = "returned"
    /\ frame.documents = <<3, 1>>
    /\ pre.self.documents = <<1>>

\* C10: the constructor's load never raises and loads both files or
\* nothing: with a file missing or unreadable the index is empty.
C10_LoadAllOrNothing ==
    (frame.op = "__init__" /\ frame.pc # "down") =>
        /\ frame.pc = "returned"
        /\ IF disk.index_path.st = "full" /\ disk.docs_path.st = "full"
           THEN /\ self.index.made
                /\ self.index.xb = disk.index_path.xb
                /\ self.documents = disk.docs_path.data
           ELSE /\ ~self.index.made
                /\ ntotal(self.index) = 0
                /\ self.documents = <<>>

\* a new index file beside a missing or unreadable chunk file
C10_Witness ==
    /\ frame.op = "__init__"
    /\ disk.index_path.st = "full"
    /\ ntotal(read_index(disk.index_path)) > 0
    /\ disk.docs_path.st # "full"

\* C11: whatever the two files hold when an instance is constructed (also
\* the files a flush interrupted between its two writes has left), the
\* instance load_index produces holds as many vectors as chunks, row n
\* being the embedding of chunk n; and it is so after every later
\* insertion and search of that instance.
C11_LoadedIndexAligned ==
    /\ (frame.op = "__init__" /\ frame.pc = "returned") => Aligned(self)
    /\ (frame.op \in {"add_documents", "search"} /\ frame.pc = "returned"
            /\ Aligned(pre.self)) => Aligned(self)

\* a call that ran save_index to its end has returned
Flushed ==
    /\ frame.pc = "returned"
    /\ frame.op = "save_index" \/ (Inserting /\ frame.documents # <<>>)

\* C12: after a flush, a fresh instance that loads the snapshot answers every
\* search (every query, every k) as the flushed instance does: the same
\* chunks in the same order with the same scores.  (An instance equal to the
\* flushed one answers as it does, search being a function of the instance.)
C12_RoundTripSameSearch ==
    Flushed =>
        \A loaded \in {load_index(Fresh, disk)} :
            \/ loaded = self
            \/ \A q \in Texts, k \in 1..MaxK, tie \in TieRules :
                  search_value(loaded, q, k, tie) = search_value(self, q, k, tie)

\* a flush of two entries has returned, and a search finds both
C12_Witness ==
    /\ Flushed
    /\ Len(self.documents) >= 2
    /\ Len(search_value(load_index(Fresh, disk), 1, 2, "low").val) = 2
    /\ disk # pre.disk

\* C13: the results of a search are in order of non-increasing score, and
\* of two results of equal score the one inserted earlier comes first.
C13_OrderedByScoreThenPosition ==
    (frame.op = "search" /\ frame.pc = "returned") =>
        \A i, j \in 1..Len(frame.found) :
            (i < j /\ frame.found[i].idx >= 0 /\ frame.found[j].idx >= 0) =>
                \/ frame.found[i].score > frame.found[j].score
                \/ /\ frame.found[i].score = frame.found[j].score
                   /\ frame.found[i].idx < frame.found[j].idx

\* C14: a search with k <= 0 whose embedder does not fail ends in an error,
\* whatever the index holds; it never returns a result list.
C14_NonPositiveKRejected ==
    (frame.op = "search" /\ AtRest /\ frame.k <= 0
        /\ frame.exc # "EmbeddingFailure") =>
        frame.pc = "raised"

\* C16: a query (max_results > 0) whose retrieval step raised is answered with an empty
\* source list and confidence 0, not with an error response.
C16_FailedRetrievalAnswersEmpty ==
    (frame.request = "answered" /\ frame.op = "search" /\ frame.pc = "raised"
        /\ frame.k > 0) =>
        /\ frame.response.status = 200
        /\ frame.response.sources = <<>>
        /\ frame.response.confidence_score.num = 0

\* C17: the confidence of an answer is the mean of the first min(3, n)
\* scores of its n results and 0 when there is none; the divisor is never 0.
C17_ConfidenceIsMeanOfTop3 ==
    (frame.request = "answered" /\ frame.response.status = 200) =>
        LET r == frame.ret.val
            c == frame.response.confidence_score
        IN  /\ c.den # 0
            /\ Len(r) = 0 => c.num = 0
            /\ Len(r) > 0 =>
                  /\ c.den = Min(3, Len(r))
                  /\ c.num = SumScores(r, Min(3, Len(r)))

\* an answer with more than three results, and an answer with none
C17_Witness ==
    /\ frame.request = "answered"
    /\ frame.response.status = 200
    /\ Len(frame.ret.val) > 3
    /\ frame.response.confidence_score.num # 0

\* the embeddings of the batch do not have the configured dimension
WrongDimension ==
    /\ frame.embeddings # <<>>
    /\ \E i \in 1..Len(frame.embeddings) :
          Len(frame.embeddings[i]) # config.VECTOR_DIMENSION

\* C15: every stored vector has the configured dimension, in every state
\* (also right after a load); and an insertion whose vectors have another
\* dimension raises and leaves the index as it was.
C15_DimensionChecked ==
    /\ \A i \in 1..ntotal(self.index) :
          Len(self.index.xb[i]) = config.VECTOR_DIMENSION
    /\ (Inserting /\ AtRest /\ WrongDimension) =>
          /\ frame.pc = "raised"
          /\ self = pre.self

SearchPcs == {"search_86", "search_91", "search_95"}

\* C18: the calls on one instance exclude one another (one call runs at a
\* time and every exit, failing or not, lets the next one start), so that no
\* search ever sees a vector collection and a chunk list of different
\* lengths.
C18_SearchSeesEqualLengths ==
    (frame.op = "search" /\ frame.pc \in SearchPcs) =>
        Len(self.documents) = ntotal(self.index)

\* chunk_text has returned, with a chunk_overlap below chunk_size
Chunked ==
    /\ frame.op = "chunk_text"
    /\ frame.pc = "returned"
    /\ config.CHUNK_OVERLAP < config.CHUNK_SIZE

\* C19: a text of 1 to chunk_size tokens gives exactly one chunk, which
\* holds all its tokens.
C19_ShortTextOneChunk ==
    (Chunked /\ Len(frame.words) >= 1 /\ Len(frame.words) <= config.CHUNK_SIZE) =>
        /\ Len(frame.ret.val) = 1
        /\ frame.ret.val[1].text = frame.words

\* C20: with chunk_size > chunk_overlap >= 0 the ranges [start_word, end_word)
\* of the chunks cover every token and leave no gap: the first chunk starts
\* at 0, each chunk starts no later than the one before it ends, the last
\* one ends at the number of tokens, and a chunk holds the tokens of its range.
C20_ChunksCoverText ==
    (Chunked /\ Len(frame.words) > 0) =>
        LET c == frame.ret.val
            n == Len(frame.words)
        IN  /\ Len(c) >= 1
            /\ c[1].start_word = 0
            /\ c[Len(c)].end_word = n
            /\ \A m \in 2..Len(c) : c[m].start_word <= c[m - 1].end_word
            /\ \A m \in 1..Len(c) :
                  c[m].text = SubSeq(frame.words, c[m].start_word + 1, c[m].end_word)
            /\ \A t \in 1..n : \E m \in 1..Len(c) :
                  c[m].start_word < t /\ t <= c[m].end_word

\* a text cut into three or more overlapping chunks
C20_Witness ==
    /\ Chunked
    /\ config.CHUNK_OVERLAP > 0
    /\ Len(frame.ret.val) >= 3
    /\ Len(frame.words) = MaxTokens

\* C21: every chunk is non-empty; chunk j (zero-based) starts at token
\* j * (chunk_size - chunk_overlap) and holds the min(chunk_size, remaining)
\* tokens from there, its end offset being its start plus the number of
\* tokens it holds.
C21_WindowsAtMultiplesOfStep ==
    Chunked =>
        LET c == frame.ret.val
            n == Len(frame.words)
        IN  \A m \in 1..Len(c) :
                LET start == (m - 1) * (config.CHUNK_SIZE - config.CHUNK_OVERLAP)
                    held == Min(config.CHUNK_SIZE, n - start)
                IN  /\ c[m].start_word = start
                    /\ held >= 1
                    /\ c[m].text = SubSeq(frame.words, start + 1, start + held)
                    /\ c[m].end_word = start + Len(c[m].text)

\* chunk_size 4, chunk_overlap 1 on 8 tokens: windows [0,4), [3,7), [6,8)
C21_Witness ==
    /\ Chunked
    /\ config.CHUNK_SIZE = 4 /\ config.CHUNK_OVERLAP = 1
    /\ Len(frame.words) = 8
    /\ Len(frame.ret.val) = 3
    /\ frame.ret.val[2].text = <<4, 5, 6, 7>>
    /\ frame.ret.val[3].start_word = 6 /\ frame.ret.val[3].end_word = 8

\* C22: with chunk_overlap >= chunk_size chunk_text ends in an error for
\* every text; it returns no chunk list, empty or not.
C22_OverlapNotBelowSizeRejected ==
    (frame.op = "chunk_text" /\ AtRest
        /\ config.CHUNK_OVERLAP >= config.CHUNK_SIZE) =>
        frame.pc = "raised"

\* C23: the chunk_id of the chunks of one document are 0, 1, ..., n-1 in
\* list order, while the list is built and when it is returned.
C23_ChunkIdsCountFromZero ==
    frame.op = "chunk_text" =>
        /\ \A m \in 1..Len(frame.chunks) : frame.chunks[m].chunk_id = m - 1
        /\ frame.pc = "returned" =>
              \A m \in 1..Len(frame.ret.val) : frame.ret.val[m].chunk_id = m - 1

\* a list of three or more chunks has been returned
C23_Witness ==
    /\ frame.op = "chunk_text"
    /\ frame.pc = "returned"
    /\ Len(frame.ret.val) >= 3
    /\ frame.ret.val[3].chunk_id = 2

\* C24: an insertion of a non-empty batch that returns has called the
\* embedder exactly once, on an index not yet created as on a created one.
C24_EmbedderCalledOncePerBatch ==
    (Inserting /\ frame.pc = "returned" /\ frame.documents # <<>>) =>
        frame.nencode = 1

\* C26: every element of a search result is a stored entry the lookup
\* matched (its label is a position of the index), paired with the score
\* of that entry, and no entry is listed twice; also when k exceeds the
\* number of stored entries.
C26_ResultsAreMatchedEntries ==
    (frame.op = "search" /\ frame.pc = "returned" /\ Aligned(self)) =>
        /\ Len(frame.ret.val) = Len(frame.found)
        /\ \A i \in 1..Len(frame.ret.val) :
              LET p == frame.found[i].idx
              IN  /\ p >= 0
                  /\ p < Len(self.documents)
                  /\ frame.ret.val[i].doc = self.documents[p + 1]
                  /\ frame.ret.val[i].score =
                        InnerProduct(self.index.xb[p + 1], frame.embeddings[1])
        /\ \A i, j \in 1..Len(frame.found) :
              i # j => frame.found[i].idx # frame.found[j].idx

\* C30: a /query request with a blank question is answered with status 400
\* and leaves the index as it was.
C30_BlankQuestionAnswered400 ==
    (frame.request = "answered" /\ frame.query = Blank) =>
        /\ frame.response.status = 400
        /\ self = pre.self
        /\ disk = pre.disk

\* C25: as long as only /upload and /fetch-sources have inserted and no
\* download has failed, the snapshot on disk holds, between requests, every
\* entry any of them inserted.
C25_NoFlushedEntryLost ==
    (frame.pc = "idle" /\ pre.scripted = {} /\ faults = 0) =>
        pre.inserted \subseteq {SnapshotEntries[n] : n \in 1..Len(SnapshotEntries)}

\* C27: a run of update_knowledge_base or of the ingest script that finds
\* only files an earlier run has ingested leaves the number of entries of
\* the index as it was.
C27_ReingestionAddsNothing ==
    (frame.op \in {"fetch_from_sources", "ingest_documents"}
        /\ frame.pc = "returned" /\ frame.rerun) =>
        Len(SnapshotEntries) = frame.count0

\* C28: download_document returns a path only for a file that holds a
\* complete body; a file left by a download that failed part-way is never
\* reported as an existing document.
C28_DownloadReturnsCompleteFiles ==
    frame.op = "fetch_from_sources" =>
        \A n \in 1..Len(frame.results) :
            frame.results[n] = "path" => disk.raw[SourceList[n]] = "full"

\* C29: with 0 <= overlap < chunk_size every iteration of the loop of
\* chunk_document moves the window start strictly forward, and the start is
\* never negative (so the loop ends).
C29_WindowStartAdvances ==
    (frame.op = "chunk_document" /\ frame.overlap < frame.chunk_size) =>
        /\ frame.start >= 0
        /\ frame.iters > 0 => frame.start > frame.prev
====
